---- MODULE Spec2Model ----
(***************************************************************************)
(* State-machine model of the NAG adapters of roboptim-core-plugin-nag:     *)
(*   - NagSolverNlpSparse  (src/src/nag-nlp-sparse.cc): solve(), its        *)
(*     fill_* builders and the evaluation callback detail::usrfun;          *)
(*   - NagSolverDifferentiable (src/src/nag-differentiable.cc): solve()     *)
(*     and the callback detail::nagSolverCallbackDifferentiable.            *)
(*                                                                         *)
(* Conventions.                                                            *)
(*   - C arrays are 0-based, TLA+ sequences 1-based: At(s, k) reads the     *)
(*     element the code calls s[k].                                         *)
(*   - Reals of the bound vectors are fixed-point integers in units of      *)
(*     1e-7, so the tolerance 1e-6 of fill_flow_fupp is Tol = 10.           *)
(*     +infinity is the integer Infinity, above every finite value used.    *)
(*   - Results of the user's functions are uninterpreted terms:             *)
(*     <<"F", id, i, x>> is output i of function id at x and                *)
(*     <<"J", id, r, c, x>> is entry (r, c) of its Jacobian at x; the       *)
(*     objective has id -1 (as in checkJacobian), constraint k has id k.    *)
(*   - assert / ROBOPTIM_ASSERT / Eigen's index checks are compiled in: a   *)
(*     failed one ends the process (pc = "aborted").                        *)
(*   - The external solver (nag_opt_sparse_nlp_solve, nag_opt_one_var_deriv)*)
(*     is a black box that, while pc = "inSolver", invokes the callback     *)
(*     with any arguments and eventually returns any status.                *)
(***************************************************************************)
EXTENDS Integers, Sequences, FiniteSets, TLC

VARIABLES
  adapter,      \* "sparse" (NagSolverNlpSparse) or "differentiable"
  problem,      \* the Problem Model handed to the constructor (never mutated)
  callback_,    \* TRUE iff an iteration callback (monitor) is registered
  pc,           \* "idle" | "inSolver" | "aborted"
  fault,        \* why the last solve() stopped early, "none" otherwise
  solver,       \* the adapter instance's fields (nf_, iafun_, ..., result_)
  solverState,  \* solverState_.x (), the point published to the monitor
  f,            \* the array f (fc) the external solver hands to the callback
  g,            \* the array g (gc) the external solver hands to the callback
  last,         \* observation of the last operation (arguments, offsets)
  obs           \* observations of the last solve() (pre-snap bounds, points)

vars == <<adapter, problem, callback_, pc, fault, solver, solverState, f, g, last, obs>>

----------------------------------------------------------------------------
\* Bounds of the model.

\* largest number of variables n
MaxN == 2
\* largest number of constraints in the constraint list
MaxCstr == 2
\* largest output size of one constraint
MaxOut == 2

----------------------------------------------------------------------------
\* Numbers.

\* function_t::infinity ()
Infinity == 1000000
\* the quiet NaN that inf - inf produces
NaN == Infinity + 1
\* the tolerance 1e-6 of the consistency loop, in units of 1e-7
Tol == 10

IsFinite(v) == v > -Infinity /\ v < Infinity

Abs(v) == IF v < 0 THEN -v ELSE v

\* IEEE a - b on the extended reals
Minus(a, b) ==
  IF a = NaN \/ b = NaN THEN NaN
  ELSE IF IsFinite(a) /\ IsFinite(b) THEN a - b
  ELSE IF IsFinite(a) THEN -b
  ELSE IF IsFinite(b) THEN a
  ELSE IF a = b THEN NaN
  ELSE a

\* IEEE a / 2. on the extended reals (the finite values used are even)
Half(a) == IF IsFinite(a) THEN a \div 2 ELSE a

\* std::abs (v) < 1e-6: false for an infinite or NaN v
AbsBelowTol(v) == IsFinite(v) /\ Abs(v) < Tol

\* a <= b on doubles: false when either is NaN
Leq(a, b) == a # NaN /\ b # NaN /\ a <= b

At(s, k) == s[k + 1]

----------------------------------------------------------------------------
\* The Problem Model (external): functions, points.

\* the id of the objective, the functionId checkJacobian is given for it
ObjId == -1

ZeroPoint(n) == [i \in 1..n |-> 0]
OnesPoint(n) == [i \in 1..n |-> 2]

\* the trial points the external solver may pass to the callback
TrialPoints(n) == {ZeroPoint(n), OnesPoint(n)}

\* Stored (structurally nonzero) coordinates of an m x n sparse matrix of
\* the given kind at x; a "varying" Jacobian stores fewer entries at the
\* zero point than elsewhere.
Lower(m, n) == {rc \in (0..(m - 1)) \X (0..(n - 1)) : rc[2] <= rc[1]}
Dense(m, n) == (0..(m - 1)) \X (0..(n - 1))

Stored(kind, m, n, x) ==
  CASE kind = "empty" -> {}
    [] kind = "lower" -> Lower(m, n)
    [] kind = "dense" -> Dense(m, n)
    [] kind = "varying" -> IF x = ZeroPoint(n) THEN Lower(m, n) ELSE Dense(m, n)

\* the double 0.0 among the uninterpreted values (a_.resize (1))
ZeroValue == <<"zero">>
\* what an array element holds before anyone wrote it
Stale == <<"stale">>

\* InnerIterator order of Eigen over the stored entries: outer index k
\* (the row, the storage being row-major), then the inner index.
RECURSIVE InnerIteration(_, _, _, _)
InnerIteration(S, m, n, k) ==
  IF k >= m * n THEN <<>>
  ELSE (IF <<k \div n, k % n>> \in S THEN << <<k \div n, k % n>> >> ELSE <<>>)
       \o InnerIteration(S, m, n, k + 1)

\* g->A () of a linear constraint: its stored entries with their values
Coefficients(c, it) ==
  [k \in 1..Len(it) |->
     [row |-> it[k][1], col |-> it[k][2], value |-> <<"A", c.id, it[k][1], it[k][2]>>]]

MatrixA(c, n) ==
  Coefficients(c, InnerIteration(Stored(c.pat, c.m, n, ZeroPoint(n)), c.m, n, 0))

\* fn->jacobian (x): the stored entries of the Jacobian at x with their
\* values; the Jacobian of a linear function is its matrix A.
Derivatives(fn, x, it) ==
  [k \in 1..Len(it) |->
     [row |-> it[k][1], col |-> it[k][2], value |-> <<"J", fn.id, it[k][1], it[k][2], x>>]]

Jacobian(fn, n, x) ==
  IF fn.type = "linear" THEN MatrixA(fn, n)
  ELSE Derivatives(fn, x, InnerIteration(Stored(fn.pat, fn.m, n, x), fn.m, n, 0))

\* (*fn) (x): the m outputs of the function at x
Value(fn, x) == [i \in 1..fn.m |-> <<"F", fn.id, i - 1, x>>]

IsLinear(c) == c.type = "linear"
IsNonlinear(c) == c.type = "nonlinear"

----------------------------------------------------------------------------
\* NagSolverNlpSparse: the builders solve () runs before the external solver.

\* compute_nf: [nf, ok]; ok is FALSE when assert (false) is hit
RECURSIVE compute_nf_loop(_, _, _)
compute_nf_loop(cs, k, nf) ==
  IF k > Len(cs) THEN [nf |-> nf, ok |-> TRUE]
  ELSE IF IsLinear(cs[k]) THEN compute_nf_loop(cs, k + 1, nf + cs[k].m)
  ELSE IF IsNonlinear(cs[k]) THEN compute_nf_loop(cs, k + 1, nf + cs[k].m)
  ELSE [nf |-> nf, ok |-> FALSE]

compute_nf(p) == compute_nf_loop(p.constraints, 1, p.function.m)

\* fill_xlow_xupp
fill_xlow_xupp(p) ==
  [xlow |-> [i \in 1..p.n |-> p.argumentBounds[i][1]],
   xupp |-> [i \in 1..p.n |-> p.argumentBounds[i][2]]]

\* fill_iafun_javar_lena_nea with the rows of the linear constraints
\* started right behind the objective
InitialOffsetAtObjective(cs, k, offset) == offset

\* the initial offset of fill_iafun_javar_lena_nea: the objective's output
\* size plus the output sizes of the constraints that are not linear
RECURSIVE InitialOffset(_, _, _)
InitialOffset(cs, k, offset) ==
  IF k > Len(cs) THEN offset
  ELSE IF IsLinear(cs[k]) THEN InitialOffset(cs, k + 1, offset)
  ELSE InitialOffset(cs, k + 1, offset + cs[k].m)

\* a copy loop that keeps the zero-based column of the matrix
LinearEntriesZeroBased(A, offset) ==
  [k \in 1..Len(A) |->
     [iafun |-> offset + A[k].row + 1, javar |-> A[k].col, a |-> A[k].value]]

\* the copy loop of fill_iafun_javar_lena_nea over one constraint's A
LinearEntries(A, offset) ==
  [k \in 1..Len(A) |->
     [iafun |-> offset + A[k].row + 1, javar |-> A[k].col + 1, a |-> A[k].value]]

RECURSIVE LinearPass(_, _, _, _, _)
LinearPass(cs, n, k, offset, acc) ==
  IF k > Len(cs) THEN acc
  ELSE IF ~IsLinear(cs[k]) THEN LinearPass(cs, n, k + 1, offset, acc)
  ELSE LinearPass(cs, n, k + 1, offset + cs[k].m, acc \o LinearEntries(MatrixA(cs[k], n), offset))

\* fill_iafun_javar_lena_nea
LinearPattern(es) ==
  IF Len(es) = 0
  THEN [iafun |-> <<0>>, javar |-> <<0>>, a |-> <<ZeroValue>>, lena |-> 1, nea |-> 0]
  ELSE [iafun |-> [k \in 1..Len(es) |-> es[k].iafun],
        javar |-> [k \in 1..Len(es) |-> es[k].javar],
        a |-> [k \in 1..Len(es) |-> es[k].a],
        lena |-> Len(es), nea |-> Len(es)]

fill_iafun_javar_lena_nea(p) ==
  LinearPattern(
    LinearPass(p.constraints, p.n, 1, InitialOffset(p.constraints, 1, p.function.m), <<>>))

\* lookForX (): where the objective's Jacobian is evaluated
lookForX0(p) == IF p.startingPoint.has THEN p.startingPoint.x ELSE ZeroPoint(p.n)

\* boundsVector ()[constraintId][i]; past the end of the vector the read
\* is out of bounds and yields whatever the memory holds (oob)
BoundsRead(c, i, oob) == IF i < c.m THEN c.bounds[i + 1] ELSE oob

\* lookForX (constraintId): where constraint constraintId's Jacobian is
\* evaluated
lookForX(p, c, oob) ==
  IF p.startingPoint.has THEN p.startingPoint.x
  ELSE [i \in 1..p.n |->
          LET b == BoundsRead(c, i - 1, oob)
          IN IF b[1] # Infinity /\ b[2] # Infinity THEN Half(Minus(b[2], b[1]))
             ELSE IF b[1] # Infinity THEN b[1]
             ELSE b[2]]

\* whether lookForX (constraintId) reads past the end of the bounds vector
ReadsOutOfBounds(p) ==
  /\ ~p.startingPoint.has
  /\ \E k \in 1..Len(p.constraints) : IsNonlinear(p.constraints[k]) /\ p.n > p.constraints[k].m

\* a push_back loop that forgets the offset of the block
PatternEntriesNoOffset(fn, jac, x, offset) ==
  [k \in 1..Len(jac) |->
     [igfun |-> jac[k].row + 1, jgvar |-> jac[k].col + 1,
      id |-> fn.id, row |-> jac[k].row, x |-> x]]

\* the push_back loop of fill_igfun_jgvar_leng_neg over one Jacobian
PatternEntries(fn, jac, x, offset) ==
  [k \in 1..Len(jac) |->
     [igfun |-> offset + jac[k].row + 1, jgvar |-> jac[k].col + 1,
      id |-> fn.id, row |-> jac[k].row, x |-> x]]

\* the Jacobian of fn at x, pushed behind offset
PatternAt(fn, n, x, offset) == PatternEntries(fn, Jacobian(fn, n, x), x, offset)

RECURSIVE NonlinearPass(_, _, _, _, _)
NonlinearPass(p, oob, k, offset, acc) ==
  IF k > Len(p.constraints) THEN acc
  ELSE IF IsLinear(p.constraints[k]) THEN NonlinearPass(p, oob, k + 1, offset, acc)
  ELSE NonlinearPass(p, oob, k + 1, offset + p.constraints[k].m,
         acc \o PatternAt(p.constraints[k], p.n, lookForX(p, p.constraints[k], oob), offset))

\* fill_igfun_jgvar_leng_neg, after the differentiability check; entries
\* keeps, beside each (igfun, jgvar), the block and point it came from
\* the points fill_igfun_jgvar_leng_neg evaluates the Jacobians at: the
\* objective's, then one per constraint that is not linear
RECURSIVE PointsPass(_, _, _, _)
PointsPass(p, oob, k, acc) ==
  IF k > Len(p.constraints) THEN acc
  ELSE IF IsLinear(p.constraints[k]) THEN PointsPass(p, oob, k + 1, acc)
  ELSE PointsPass(p, oob, k + 1,
         Append(acc, [id |-> p.constraints[k].id, x |-> lookForX(p, p.constraints[k], oob)]))

RepresentativePoints(p, oob) ==
  PointsPass(p, oob, 1, <<[id |-> p.function.id, x |-> lookForX0(p)]>>)

\* a builder that counts its placeholder as a nonzero
NonlinearPatternCounted(es) ==
  IF Len(es) = 0
  THEN [igfun |-> <<0>>, jgvar |-> <<0>>, leng |-> 1, neg |-> 1, entries |-> es]
  ELSE [igfun |-> [k \in 1..Len(es) |-> es[k].igfun],
        jgvar |-> [k \in 1..Len(es) |-> es[k].jgvar],
        leng |-> Len(es), neg |-> Len(es), entries |-> es]

\* the end of fill_igfun_jgvar_leng_neg: leng_, and the placeholder when
\* nothing was pushed
NonlinearPattern(es) ==
  IF Len(es) = 0
  THEN [igfun |-> <<0>>, jgvar |-> <<0>>, leng |-> 1, neg |-> 0, entries |-> es]
  ELSE [igfun |-> [k \in 1..Len(es) |-> es[k].igfun],
        jgvar |-> [k \in 1..Len(es) |-> es[k].jgvar],
        leng |-> Len(es), neg |-> Len(es), entries |-> es]

fill_igfun_jgvar_leng_neg(p, oob) ==
  NonlinearPattern(
    NonlinearPass(p, oob, 1, p.function.m, PatternAt(p.function, p.n, lookForX0(p), 0)))

\* the first loop of fill_flow_fupp: the rows of the nonlinear constraints,
\* each with the constraint and output it was read from
RECURSIVE NonlinearBounds(_, _, _)
NonlinearBounds(cs, k, acc) ==
  IF k > Len(cs) THEN acc
  ELSE IF IsLinear(cs[k]) THEN NonlinearBounds(cs, k + 1, acc)
  ELSE NonlinearBounds(cs, k + 1,
         acc \o [i \in 1..cs[k].m |->
                   [flow |-> cs[k].bounds[i][1], fupp |-> cs[k].bounds[i][2],
                    id |-> cs[k].id, i |-> i - 1]])

\* a bound copied as declared
DeclaredBound(v, b) == v

\* boundsVector ()[constraintId][i_] - g->b ()[i]
LinearBound(v, b) == Minus(v, b)

\* the second loop of fill_flow_fupp: the rows of the linear constraints,
\* shifted by the offset vector b
RECURSIVE LinearBounds(_, _, _)
LinearBounds(cs, k, acc) ==
  IF k > Len(cs) THEN acc
  ELSE IF ~IsLinear(cs[k]) THEN LinearBounds(cs, k + 1, acc)
  ELSE LinearBounds(cs, k + 1,
         acc \o [i \in 1..cs[k].m |->
                   [flow |-> LinearBound(cs[k].bounds[i][1], cs[k].b[i]),
                    fupp |-> LinearBound(cs[k].bounds[i][2], cs[k].b[i]),
                    id |-> cs[k].id, i |-> i - 1]])

\* an assembly that leaves row 0 as setZero () made it
AssembleBoundsObjectiveZero(p) ==
  LinearBounds(p.constraints, 1,
    NonlinearBounds(p.constraints, 1,
      <<[flow |-> 0, fupp |-> 0, id |-> ObjId, i |-> 0]>>))

\* flow_ / fupp_ as fill_flow_fupp has them at assert (offset == nf_)
AssembleBounds(p) ==
  LinearBounds(p.constraints, 1,
    NonlinearBounds(p.constraints, 1,
      <<[flow |-> -Infinity, fupp |-> Infinity, id |-> ObjId, i |-> 0]>>))

\* a consistency loop that leaves a bound near zero as it is
KeepValue(v) == v

\* one round of the consistency loop of fill_flow_fupp on row r
SnapZero(v) == IF AbsBelowTol(v) THEN 0 ELSE v

SnapEqual(lo, up) == [flow |-> IF AbsBelowTol(Minus(lo, up)) THEN up ELSE lo, fupp |-> up]

SnapRow(r) == SnapEqual(SnapZero(r.flow), SnapZero(r.fupp))

\* fill_flow_fupp: raw is the assembled rows, flow/fupp the arrays after
\* the consistency loop, ok is FALSE when assert (flow_[id] <= fupp_[id])
\* fails for some row
ConsistentBounds(raw, snapped) ==
  [raw |-> raw,
   flow |-> [k \in 1..Len(raw) |-> snapped[k].flow],
   fupp |-> [k \in 1..Len(raw) |-> snapped[k].fupp],
   ok |-> \A k \in 1..Len(raw) : Leq(snapped[k].flow, snapped[k].fupp)]

SnapRows(raw) == ConsistentBounds(raw, [k \in 1..Len(raw) |-> SnapRow(raw[k])])

fill_flow_fupp(p) == SnapRows(AssembleBounds(p))

\* "%1%, %2%, Ouput variable %3%": the name of a row is its kind, the name
\* of its function (the function's id here) and the output index
RECURSIVE RowNames(_, _, _, _)
RowNames(cs, kind, k, acc) ==
  IF k > Len(cs) THEN acc
  ELSE IF (kind = "linear") # IsLinear(cs[k]) THEN RowNames(cs, kind, k + 1, acc)
  ELSE RowNames(cs, kind, k + 1,
         acc \o [i \in 1..cs[k].m |-> <<kind, cs[k].id, i - 1>>])

\* fill_fnames: the names pushed behind those fnames_ already holds
fill_fnames(p, fnames) ==
  RowNames(p.constraints, "linear", 1,
    RowNames(p.constraints, "nonlinear", 1,
      Append(fnames, <<"cost", ObjId, 0>>)))

\* the loop of solve () that pushes "RobOptim variable %1%" onto xnames_
fill_xnames(p, xnames) == xnames \o [i \in 1..p.n |-> <<"variable", i - 1>>]

----------------------------------------------------------------------------
\* The problems the model is run on.

\* declared bound pairs of the first output of a constraint
DefaultBounds == <<-Infinity, 20>>
BoundPairs ==
  { <<-Infinity, Infinity>>, <<-Infinity, 20>>, <<4, 30>>, <<35, 41>>, <<20, 20>>,
    <<30, 20>>, <<26, 20>> }

\* what a read past the end of a bounds vector may yield
OutOfBoundsReads == { <<0, 0>>, <<-Infinity, Infinity>> }

\* offsets b of the first output of a linear constraint
OffsetValues == {0, 16}

\* the offsets and bounds of a constraint differ from one output to the next
RowOffset(b, i) == b * i

RowBound(v, i) == IF IsFinite(v) THEN v + (i - 1) ELSE v

Constraint(type, m, pat, b, bnd) ==
  [type |-> type, m |-> m, pat |-> pat, b |-> [i \in 1..m |-> RowOffset(b, i)],
   bounds |-> [i \in 1..m |-> <<RowBound(bnd[1], i), RowBound(bnd[2], i)>>], id |-> 0]

\* constraints that differ in kind, size and sparsity pattern
LayoutConstraints ==
  { Constraint("nonlinear", 1, "lower", 0, DefaultBounds),
    Constraint("nonlinear", MaxOut, "varying", 0, DefaultBounds),
    Constraint("linear", 1, "lower", 0, DefaultBounds),
    Constraint("linear", MaxOut, "lower", 0, DefaultBounds),
    Constraint("plain", 1, "empty", 0, DefaultBounds) }

\* constraints that differ in kind, bounds and offset
BoundsConstraints ==
  {Constraint("nonlinear", MaxOut, "lower", 0, bnd) : bnd \in BoundPairs}
  \cup {Constraint("linear", MaxOut, "lower", b, bnd) : b \in OffsetValues, bnd \in BoundPairs}

\* the constraints beside which a constraint of BoundsConstraints is put
PlainBoundsConstraints ==
  { Constraint("nonlinear", 1, "lower", 0, DefaultBounds),
    Constraint("linear", 1, "lower", 0, DefaultBounds) }

WithIds(cs) == [k \in 1..Len(cs) |-> [cs[k] EXCEPT !.id = k - 1]]

\* constraint lists of at most MaxCstr constraints; constraint k gets id k
ConstraintLists(C) ==
  UNION {{WithIds(cs) : cs \in [1..len -> C]} : len \in 0..MaxCstr}

\* constraint lists of at most MaxCstr constraints, one of them of
\* BoundsConstraints
BoundsLists ==
  UNION {{WithIds([cs EXCEPT ![k] = c]) : c \in BoundsConstraints, k \in 1..Len(cs)} :
           cs \in ConstraintLists(PlainBoundsConstraints)}

Objective(diff, pat) == [type |-> "objective", id |-> ObjId, m |-> 1, diff |-> diff, pat |-> pat]

Objectives == {Objective(TRUE, "empty"), Objective(TRUE, "varying"), Objective(FALSE, "empty")}

StartingPoints(n) == {[has |-> FALSE, x |-> ZeroPoint(n)], [has |-> TRUE, x |-> OnesPoint(n)]}

Problem(n, fn, start, ab, cs) ==
  [n |-> n, function |-> fn, startingPoint |-> start,
   argumentBounds |-> [i \in 1..n |-> ab], constraints |-> cs]

\* problems for NagSolverNlpSparse that differ in the layout of the rows
LayoutProblems ==
  UNION {{Problem(n, fn, start, <<-Infinity, Infinity>>, cs) :
            fn \in Objectives, start \in StartingPoints(n),
            cs \in ConstraintLists(LayoutConstraints)} : n \in {1, MaxN}}

\* problems for NagSolverNlpSparse that differ in the bounds
BoundsProblems ==
  {Problem(MaxN, Objective(TRUE, "lower"), start, <<2, 6>>, cs) :
     start \in StartingPoints(MaxN), cs \in BoundsLists}

\* problems for NagSolverDifferentiable: one variable, no constraint
DifferentiableProblems ==
  {Problem(1, fn, start, ab, <<>>) :
     fn \in {Objective(TRUE, "dense"), Objective(FALSE, "empty")},
     start \in StartingPoints(1), ab \in {<<2, 6>>}}

----------------------------------------------------------------------------
\* Construction.

NoSolution == [kind |-> "NoSolution"]

\* NagSolverNlpSparse::NagSolverNlpSparse
NagSolverNlpSparse(p) ==
  [nf_ |-> 0, n_ |-> p.n, nxname_ |-> 0, nfname_ |-> 0, objadd_ |-> 0, objrow_ |-> 1,
   iafun_ |-> <<>>, javar_ |-> <<>>, a_ |-> <<>>, lena_ |-> 0, nea_ |-> 0,
   igfun_ |-> <<>>, jgvar_ |-> <<>>, leng_ |-> 0, neg_ |-> 0,
   xlow_ |-> <<>>, xupp_ |-> <<>>, xnames_ |-> <<>>,
   flow_ |-> <<>>, fupp_ |-> <<>>, fnames_ |-> <<>>,
   x_ |-> [i \in 1..p.n |-> Stale], xmul_ |-> [i \in 1..p.n |-> Stale],
   f_ |-> <<>>, fmul_ |-> [i \in 1..p.n |-> Stale],
   result_ |-> NoSolution]

\* NagSolverDifferentiable::NagSolverDifferentiable
NagSolverDifferentiable(p) ==
  [a_ |-> [i \in 1..p.n |-> p.argumentBounds[i][1]],
   b_ |-> [i \in 1..p.n |-> p.argumentBounds[i][2]],
   x_ |-> <<0>>, f_ |-> [i \in 1..p.function.m |-> ZeroValue],
   g_ |-> [i \in 1..p.n |-> ZeroValue],
   result_ |-> NoSolution]

NoOperation ==
  [op |-> "none", status |-> 0, needf |-> 0, needg |-> 0, x |-> <<>>,
   offsetF |-> 0, offsetG |-> 0, monitor |-> 0, seenF |-> <<>>, seenG |-> <<>>,
   code |-> "none"]

NoObservation ==
  [solves |-> 0, entered |-> 0, raw |-> <<>>, pattern |-> <<>>, points |-> <<>>,
   first |-> <<>>]

InitOn(P) ==
  /\ \/ adapter = "sparse" /\ problem \in P /\ solver = NagSolverNlpSparse(problem)
     \/ /\ adapter = "differentiable" /\ problem \in DifferentiableProblems
        /\ solver = NagSolverDifferentiable(problem)
  /\ callback_ = FALSE
  /\ pc = "idle"
  /\ fault = "none"
  /\ solverState = <<>>
  /\ f = <<>>
  /\ g = <<>>
  /\ last = NoOperation
  /\ obs = NoObservation

Init == InitOn(LayoutProblems)

InitBounds == InitOn(BoundsProblems)

----------------------------------------------------------------------------
\* NagSolverNlpSparse::solve, up to the call of the external solver.

\* largest number of solve () calls on one instance
MaxSolves == 2

\* the ROBOPTIM_ASSERT block of solve ()
SizesValid(s) ==
  /\ s.nf_ > 0 /\ s.n_ > 0
  /\ (s.nxname_ = 1 \/ s.nxname_ = s.n_)
  /\ (s.nfname_ = 1 \/ s.nfname_ = s.nf_)
  /\ s.objadd_ = 0
  /\ 1 <= s.objrow_ /\ s.objrow_ <= s.nf_
  /\ Len(s.iafun_) = s.lena_ /\ Len(s.javar_) = s.lena_ /\ Len(s.a_) = s.lena_
  /\ s.lena_ >= 1
  /\ Len(s.igfun_) >= s.leng_ /\ Len(s.jgvar_) >= s.leng_
  /\ s.leng_ >= 1
  /\ 0 <= s.neg_ /\ s.neg_ <= s.leng_
  /\ Len(s.xlow_) = s.n_ /\ Len(s.xupp_) = s.n_
  /\ Len(s.flow_) = s.nf_ /\ Len(s.fupp_) = s.nf_
  /\ Len(s.x_) = s.n_ /\ Len(s.xmul_) = s.n_
  /\ Len(s.f_) = s.nf_ /\ Len(s.fmul_) = s.nf_

\* The state of the instance after each step of solve (), in the order
\* solve () runs them: nf, lin, nl, xb, fb are what compute_nf and the
\* fill_* builders return.
AfterComputeNf(s, nf) ==
  [s EXCEPT !.nf_ = nf.nf,
            !.nfname_ = IF nf.nf = 1 \/ s.n_ = 1 THEN 1 ELSE nf.nf,
            !.nxname_ = IF nf.nf = 1 \/ s.n_ = 1 THEN 1 ELSE s.n_]

AfterLinearPattern(s, lin) ==
  [s EXCEPT !.iafun_ = lin.iafun, !.javar_ = lin.javar, !.a_ = lin.a,
            !.lena_ = lin.lena, !.nea_ = lin.nea]

AfterPatternThrow(s) == [s EXCEPT !.igfun_ = <<>>, !.jgvar_ = <<>>, !.neg_ = 0]

AfterNonlinearPattern(s, nl) ==
  [s EXCEPT !.igfun_ = nl.igfun, !.jgvar_ = nl.jgvar, !.leng_ = nl.leng, !.neg_ = nl.neg]

AfterBounds(s, xb, fb) ==
  [s EXCEPT !.xlow_ = xb.xlow, !.xupp_ = xb.xupp, !.flow_ = fb.flow, !.fupp_ = fb.fupp]

AfterNames(p, s) == [s EXCEPT !.fnames_ = fill_fnames(p, s.fnames_)]

AfterResize(p, s) ==
  [s EXCEPT !.x_ = IF p.startingPoint.has THEN p.startingPoint.x ELSE ZeroPoint(p.n),
            !.xmul_ = [i \in 1..s.n_ |-> Stale],
            !.f_ = [k \in 1..s.nf_ |-> Stale],
            !.fmul_ = [k \in 1..s.nf_ |-> Stale],
            !.xnames_ = fill_xnames(p, s.xnames_)]

StepsFrom(p, nf, nl, fb, pts, s1, s2, s4) ==
  [nf |-> nf, nl |-> nl, fb |-> fb, points |-> pts,
   s1 |-> s1, s3t |-> AfterPatternThrow(s2), s4 |-> s4,
   s5 |-> AfterNames(p, s4), s6 |-> AfterResize(p, AfterNames(p, s4))]

StepsWith(p, s, nf, lin, nl, xb, fb, pts) ==
  StepsFrom(p, nf, nl, fb, pts, AfterComputeNf(s, nf),
            AfterLinearPattern(AfterComputeNf(s, nf), lin),
            AfterBounds(AfterNonlinearPattern(AfterLinearPattern(AfterComputeNf(s, nf), lin), nl),
                        xb, fb))

SolveSteps(p, s, oob) ==
  StepsWith(p, s, compute_nf(p), fill_iafun_javar_lena_nea(p),
            fill_igfun_jgvar_leng_neg(p, oob), fill_xlow_xupp(p), fill_flow_fupp(p),
            RepresentativePoints(p, oob))

\* where solve () stops before the external solver, "none" if it does not
SolveFault(p, st) ==
  IF ~st.nf.ok THEN "assert: should never happen"
  ELSE IF ~p.function.diff THEN "throw: objective function should be differentiable"
  ELSE IF Len(st.fb.raw) # st.s1.nf_ THEN "assert: offset == nf_"
  ELSE IF ~st.fb.ok THEN "assert: flow_[id] <= fupp_[id]"
  ELSE IF st.s5.nf_ # Len(st.s5.fnames_) THEN "assert: nf_ == fnames_.size ()"
  ELSE IF ~SizesValid(st.s6) THEN "assert: sizes"
  ELSE "none"

IsThrow(flt) == flt = "throw: objective function should be differentiable"

NoPattern(flt) ==
  flt \in {"assert: should never happen", "throw: objective function should be differentiable"}

SolveEnd(st, flt) ==
  /\ fault' = flt
  /\ pc' = IF flt = "none" THEN "inSolver" ELSE IF IsThrow(flt) THEN "idle" ELSE "aborted"
  /\ solver' = CASE flt = "none" -> st.s6
                 [] flt = "assert: should never happen" -> st.s1
                 [] IsThrow(flt) -> st.s3t
                 [] flt = "assert: nf_ == fnames_.size ()" -> st.s5
                 [] flt = "assert: sizes" -> st.s6
                 [] OTHER -> st.s4
  /\ f' = IF flt = "none" THEN [k \in 1..st.s6.nf_ |-> Stale] ELSE <<>>
  /\ g' = IF flt = "none" THEN [k \in 1..st.s6.leng_ |-> Stale] ELSE <<>>
  /\ last' = [NoOperation EXCEPT !.op = "solve"]
  /\ obs' = [solves |-> obs.solves + 1,
             entered |-> IF flt = "none" THEN obs.entered + 1 ELSE obs.entered,
             raw |-> IF NoPattern(flt) THEN <<>> ELSE st.fb.raw,
             pattern |-> IF NoPattern(flt) THEN <<>> ELSE st.nl.entries,
             points |-> IF NoPattern(flt) THEN <<>> ELSE st.points,
             first |-> IF flt = "none" /\ obs.entered = 0 THEN <<st.s6>> ELSE obs.first]

SolveWith(st) == SolveEnd(st, SolveFault(problem, st))

\* solve () of NagSolverNlpSparse: builds every array, then either stops
\* (a throw leaves the instance usable, a failed assertion ends the
\* process) or calls nag_opt_sparse_nlp_solve.
Solve ==
  /\ adapter = "sparse"
  /\ pc = "idle"
  /\ obs.solves < MaxSolves
  /\ \E oob \in (IF ReadsOutOfBounds(problem) THEN OutOfBoundsReads ELSE {<<0, 0>>}) :
       SolveWith(SolveSteps(problem, solver, oob))
  /\ UNCHANGED <<adapter, problem, callback_, solverState>>

----------------------------------------------------------------------------
\* detail::usrfun, the callback of nag_opt_sparse_nlp_solve.

\* the values status may take: 0 (any call but the last), 2 (the last)
StatusValues == {0, 2}
NeedValues == {0, 1}

\* the first loop of the needf branch: writes the outputs of the
\* constraints that are not linear behind the objective's; [f, offset]
RECURSIVE ValuePass(_, _, _, _, _)
ValuePass(cs, x, k, offset, fa) ==
  IF k > Len(cs) THEN [f |-> fa, offset |-> offset]
  ELSE IF IsLinear(cs[k]) THEN ValuePass(cs, x, k + 1, offset, fa)
  ELSE ValuePass(cs, x, k + 1, offset + cs[k].m,
         [j \in 1..Len(fa) |->
            IF offset < j /\ j <= offset + cs[k].m THEN Value(cs[k], x)[j - offset] ELSE fa[j]])

\* the needf branch without its second loop
LinearSkipNone(cs, k, offset) == offset

\* the second loop of the needf branch: advances the offset over the
\* linear constraints
RECURSIVE LinearSkip(_, _, _)
LinearSkip(cs, k, offset) ==
  IF k > Len(cs) THEN offset
  ELSE IF ~IsLinear(cs[k]) THEN LinearSkip(cs, k + 1, offset)
  ELSE LinearSkip(cs, k + 1, offset + cs[k].m)

\* the needf branch of usrfun on the array fa: [f, offset]
UsrfunValuesEnd(cs, nl) == [f |-> nl.f, offset |-> LinearSkip(cs, 1, nl.offset)]

UsrfunValues(p, x, fa) ==
  UsrfunValuesEnd(p.constraints,
    ValuePass(p.constraints, x, 1, 1, [fa EXCEPT ![1] = Value(p.function, x)[1]]))

\* whether the constraint loop of the needg branch takes constraint c
\* (it skips the constraints for which asType<linearFunction_t> fails)
JacobianLoopTakes(c) == IsLinear(c)

\* the constraint loop of the needg branch: the Jacobian entries it writes
RECURSIVE JacobianPass(_, _, _, _, _)
JacobianPass(cs, n, x, k, acc) ==
  IF k > Len(cs) THEN acc
  ELSE IF ~JacobianLoopTakes(cs[k]) THEN JacobianPass(cs, n, x, k + 1, acc)
  ELSE JacobianPass(cs, n, x, k + 1, acc \o Jacobian(cs[k], n, x))

\* a needg branch that drops what does not fit into g
UsrfunStoresDropping(es, ga) ==
  [g |-> [k \in 1..Len(ga) |-> IF k <= Len(es) THEN es[k].value ELSE ga[k]],
   offset |-> Len(ga), index |-> TRUE, count |-> TRUE]

\* the needg branch of usrfun on the array ga of leng elements: the
\* values g_[offset++] = it.value () stores, in order. A store past the
\* end of g_ fails Eigen's index check (index), and the final
\* assert (offset == leng) fails when the counts differ (count).
UsrfunStores(es, ga) ==
  [g |-> [k \in 1..Len(ga) |-> IF k <= Len(es) THEN es[k].value ELSE ga[k]],
   offset |-> IF Len(es) > Len(ga) THEN Len(ga) ELSE Len(es),
   index |-> Len(es) <= Len(ga),
   count |-> Len(es) = Len(ga)]

UsrfunJacobian(p, x, ga) ==
  UsrfunStores(JacobianPass(p.constraints, p.n, x, 1, Jacobian(p.function, p.n, x)), ga)

\* where usrfun stops, "none" if it returns
UsrfunFault(p, s, needf, needg, fv, gv) ==
  IF needf > 0 /\ fv.offset # s.nf_ THEN "assert: offset == nf"
  ELSE IF needg > 0 /\ ~p.function.diff THEN "throw: objective function should be differentiable"
  ELSE IF needg > 0 /\ ~gv.index THEN "assert: index < size ()"
  ELSE IF needg > 0 /\ ~gv.count THEN "assert: offset == leng"
  ELSE "none"

\* a callback that takes no call for the final one
NeverFinalCall(status) == FALSE

\* *status >= 2: this is the final call, usrfun returns at once
IsFinalCall(status) == status >= 2

\* a callback that never reaches its monitor
MonitorSkipped(status, flt) == FALSE

\* whether usrfun reaches solver->callback () (...) : it has not returned
\* at the terminal signal, nothing stopped it and a monitor is registered
MonitorCalled(status, flt) == ~IsFinalCall(status) /\ flt = "none" /\ callback_

\* usrfun called with (status, x, needf, needg) on the arrays fa and ga,
\* fv and gv being what its two branches compute
UsrFunCall(status, x, needf, needg, fa, ga, fv, gv, flt) ==
  /\ f' = IF ~IsFinalCall(status) /\ needf > 0 THEN fv.f ELSE fa
  /\ g' = IF ~IsFinalCall(status) /\ needg > 0 /\ flt # "assert: offset == nf" THEN gv.g ELSE ga
  /\ fault' = flt
  /\ pc' = IF flt = "none" THEN "inSolver" ELSE "aborted"
  /\ solverState' = IF MonitorCalled(status, flt) THEN x ELSE solverState
  /\ last' = [op |-> "usrfun", status |-> status, needf |-> needf, needg |-> needg,
              x |-> x,
              offsetF |-> IF ~IsFinalCall(status) /\ needf > 0 THEN fv.offset ELSE 0,
              offsetG |-> IF ~IsFinalCall(status) /\ needg > 0 /\ flt # "assert: offset == nf"
                          THEN gv.offset ELSE 0,
              monitor |-> IF MonitorCalled(status, flt) THEN 1 ELSE 0,
              seenF |-> IF MonitorCalled(status, flt) THEN f' ELSE <<>>,
              seenG |-> IF MonitorCalled(status, flt) THEN g' ELSE <<>>,
              code |-> "none"]

UsrFunAt(x, fa, ga, fv, gv) ==
  \E status \in StatusValues, needf \in NeedValues, needg \in NeedValues :
    UsrFunCall(status, x, needf, needg, fa, ga, fv, gv,
               IF IsFinalCall(status) THEN "none" ELSE UsrfunFault(problem, solver, needf, needg, fv, gv))

\* One invocation of usrfun by the external solver, on arrays f and g
\* whose contents the solver chose (Stale).
UsrFun ==
  /\ adapter = "sparse"
  /\ pc = "inSolver"
  /\ \E x \in TrialPoints(problem.n) :
       UsrFunAt(x, [k \in 1..solver.nf_ |-> Stale], [k \in 1..solver.leng_ |-> Stale],
                UsrfunValues(problem, x, [k \in 1..solver.nf_ |-> Stale]),
                UsrfunJacobian(problem, x, [k \in 1..solver.leng_ |-> Stale]))
  /\ UNCHANGED <<adapter, problem, callback_, solver, obs>>

\* the outputs the external solver leaves in x_, f_ and fmul_
SolverOutput(tag, n) == [k \in 1..n |-> <<tag, k - 1>>]

FailCodes == {"NE_NOERROR", "NE_USER_STOP"}

\* a decoding that takes the constraint values from row 0 on
DecodeResultFromObjective(s) ==
  [kind |-> "Result", x |-> s.x_, value |-> <<At(s.f_, 0)>>,
   constraints |-> SubSeq(s.f_, 1, s.nf_ - 1),
   lambda |-> SubSeq(s.fmul_, 2, s.nf_)]

\* the Result solve () builds from the output arrays
DecodeResult(s) ==
  [kind |-> "Result", x |-> s.x_, value |-> <<At(s.f_, 0)>>,
   constraints |-> SubSeq(s.f_, 2, s.nf_),
   lambda |-> SubSeq(s.fmul_, 2, s.nf_)]

\* a translation that attaches no last state to the error
TranslateResultMessageOnly(s, code) ==
  IF code = "NE_NOERROR" THEN DecodeResult(s)
  ELSE [kind |-> "SolverError", message |-> <<"message", code>>, lastState |-> <<>>]

\* what solve () stores in result_ for the external solver's status
TranslateResult(s, code) ==
  IF code = "NE_NOERROR" THEN DecodeResult(s)
  ELSE [kind |-> "SolverError", message |-> <<"message", code>>, lastState |-> <<DecodeResult(s)>>]

\* nag_opt_sparse_nlp_solve returns with status code; solve () stores the
\* result and returns.
SolverReturn ==
  /\ adapter = "sparse"
  /\ pc = "inSolver"
  /\ \E code \in FailCodes :
       LET s1 == [solver EXCEPT !.x_ = SolverOutput("x", solver.n_),
                                !.xmul_ = SolverOutput("xmul", solver.n_),
                                !.f_ = SolverOutput("f", solver.nf_),
                                !.fmul_ = SolverOutput("fmul", solver.nf_)]
       IN /\ solver' = [s1 EXCEPT !.result_ = TranslateResult(s1, code)]
          /\ last' = [NoOperation EXCEPT !.op = "return", !.code = code]
  /\ pc' = "idle"
  /\ f' = <<>>
  /\ g' = <<>>
  /\ UNCHANGED <<adapter, problem, callback_, fault, solverState, obs>>

\* setIterationCallback: registers a monitor, or the empty callback (the
\* model lets the caller do so before the first solve ())
SetIterationCallback ==
  /\ pc = "idle"
  /\ obs.solves = 0
  /\ callback_' \in BOOLEAN
  /\ callback_' # callback_
  /\ UNCHANGED <<adapter, problem, pc, fault, solver, solverState, f, g, last, obs>>

----------------------------------------------------------------------------
\* NagSolverDifferentiable.

\* solve () of NagSolverDifferentiable up to nag_opt_one_var_deriv: it
\* reads the parameters, copies the starting point and calls the solver.
SolveDifferentiable ==
  /\ adapter = "differentiable"
  /\ pc = "idle"
  /\ obs.solves < MaxSolves
  /\ solver' = [solver EXCEPT !.x_ = IF problem.startingPoint.has
                                     THEN problem.startingPoint.x ELSE solver.x_]
  /\ pc' = "inSolver"
  /\ fault' = "none"
  /\ f' = [k \in 1..problem.function.m |-> Stale]
  /\ g' = [k \in 1..problem.n |-> Stale]
  /\ last' = [NoOperation EXCEPT !.op = "solve"]
  /\ obs' = [obs EXCEPT !.solves = obs.solves + 1, !.entered = obs.entered + 1]
  /\ UNCHANGED <<adapter, problem, callback_, solverState>>

\* dfun->gradient (gc_, x_, 0): the dense gradient of output 0
Gradient(fn, n, x) == [c \in 1..n |-> <<"J", fn.id, 0, c - 1, x>>]

\* detail::nagSolverCallbackDifferentiable at xc: throws when the cost
\* function is not differentiable, else writes fc and gc and calls the
\* monitor. The throw leaves nag_opt_one_var_deriv and solve ().
CallbackDifferentiable ==
  /\ adapter = "differentiable"
  /\ pc = "inSolver"
  /\ \E xc \in TrialPoints(1) :
       LET thrown == ~problem.function.diff
           mon == ~thrown /\ callback_
           fout == IF thrown THEN f ELSE Value(problem.function, xc)
           gout == IF thrown THEN g ELSE Gradient(problem.function, problem.n, xc)
       IN /\ f' = fout
          /\ g' = gout
          /\ fault' = IF thrown THEN "throw: cost function is not differentiable" ELSE "none"
          /\ pc' = IF thrown THEN "idle" ELSE "inSolver"
          /\ solverState' = IF mon THEN xc ELSE solverState
          /\ last' = [NoOperation EXCEPT !.op = "callback", !.x = xc,
                                         !.needf = 1, !.needg = 1,
                                         !.monitor = IF mon THEN 1 ELSE 0,
                                         !.seenF = IF mon THEN fout ELSE <<>>,
                                         !.seenG = IF mon THEN gout ELSE <<>>]
  /\ UNCHANGED <<adapter, problem, callback_, solver, obs>>

\* what solve () of NagSolverDifferentiable stores in result_
TranslateResultDifferentiable(s, code) ==
  IF code = "NE_NOERROR" THEN [kind |-> "Result", x |-> s.x_, value |-> s.f_]
  ELSE [kind |-> "SolverError", message |-> <<"message", code>>, lastState |-> <<>>]

\* nag_opt_one_var_deriv returns with status code
ReturnDifferentiable ==
  /\ adapter = "differentiable"
  /\ pc = "inSolver"
  /\ \E code \in FailCodes :
       LET s1 == [solver EXCEPT !.x_ = SolverOutput("x", 1),
                                !.f_ = SolverOutput("f", problem.function.m),
                                !.g_ = SolverOutput("g", problem.n)]
       IN /\ solver' = [s1 EXCEPT !.result_ = TranslateResultDifferentiable(s1, code)]
          /\ last' = [NoOperation EXCEPT !.op = "return", !.code = code]
  /\ pc' = "idle"
  /\ f' = <<>>
  /\ g' = <<>>
  /\ UNCHANGED <<adapter, problem, callback_, fault, solverState, obs>>

----------------------------------------------------------------------------
Next ==
  \/ Solve
  \/ UsrFun
  \/ SolverReturn
  \/ SetIterationCallback
  \/ SolveDifferentiable
  \/ CallbackDifferentiable
  \/ ReturnDifferentiable

\* every layout of rows, with default bounds
Spec == Init /\ [][Next]_vars

\* every declared bound pair and offset, with one sparsity pattern
SpecBounds == InitBounds /\ [][Next]_vars

----------------------------------------------------------------------------
\* The combined row layout, as the specification states it: row 0 is the
\* objective, then the Nonlinear constraints in list order, then the Linear
\* constraints in list order.

\* the output sizes of the constraints before the k-th that are linear
\* (lin = TRUE) or not (lin = FALSE)
RECURSIVE OutputsBefore(_, _, _)
OutputsBefore(cs, k, lin) ==
  IF k <= 1 THEN 0
  ELSE OutputsBefore(cs, k - 1, lin) + (IF IsLinear(cs[k - 1]) = lin THEN cs[k - 1].m ELSE 0)

AllOutputs(cs, lin) == OutputsBefore(cs, Len(cs) + 1, lin)

\* the combined row (0-based) of output i of the k-th constraint
ExpectedRow(cs, k, i) ==
  IF IsLinear(cs[k]) THEN 1 + AllOutputs(cs, FALSE) + OutputsBefore(cs, k, TRUE) + i
  ELSE 1 + OutputsBefore(cs, k, FALSE) + i

\* solve () of NagSolverNlpSparse has built its arrays and called the
\* external solver
SparseBuilt == adapter = "sparse" /\ pc = "inSolver"

\* usrfun was last invoked, not for the final call, asking for values
ValuesRequested ==
  adapter = "sparse" /\ last.op = "usrfun" /\ last.status < 2 /\ last.needf > 0

\* usrfun was last invoked, not for the final call, asking for the
\* Jacobian, and reached the needg branch
JacobianRequested ==
  /\ adapter = "sparse" /\ last.op = "usrfun" /\ last.status < 2 /\ last.needg > 0
  /\ fault # "assert: offset == nf"

\* C1: nf is 1 + the sum of the constraint output sizes, and
\* fill_flow_fupp, fill_fnames, fill_iafun_javar_lena_nea,
\* fill_igfun_jgvar_leng_neg and the value branch of usrfun all give
\* output i of constraint k the combined row of the layout: the objective
\* on row 0, then the Nonlinear constraints, then the Linear ones.
C1_RowLayout ==
  SparseBuilt =>
    /\ solver.nf_ = 1 + AllOutputs(problem.constraints, TRUE) + AllOutputs(problem.constraints, FALSE)
    /\ Len(obs.raw) = solver.nf_ /\ Len(solver.fnames_) = solver.nf_
    /\ obs.raw[1].id = ObjId
    /\ solver.fnames_[1] = <<"cost", ObjId, 0>>
    /\ \A k \in 1..Len(problem.constraints) : \A i \in 0..(problem.constraints[k].m - 1) :
         /\ At(obs.raw, ExpectedRow(problem.constraints, k, i)).id = problem.constraints[k].id
         /\ At(obs.raw, ExpectedRow(problem.constraints, k, i)).i = i
         /\ At(solver.fnames_, ExpectedRow(problem.constraints, k, i))
              = <<problem.constraints[k].type, problem.constraints[k].id, i>>
    /\ \A j \in 1..solver.nea_ :
         solver.iafun_[j]
           = ExpectedRow(problem.constraints, solver.a_[j][2] + 1, solver.a_[j][3]) + 1
    /\ \A j \in 1..solver.neg_ :
         solver.igfun_[j]
           = IF obs.pattern[j].id = ObjId THEN 1
             ELSE ExpectedRow(problem.constraints, obs.pattern[j].id + 1, obs.pattern[j].row) + 1
    /\ ValuesRequested =>
         /\ At(f, 0) = <<"F", ObjId, 0, last.x>>
         /\ \A k \in 1..Len(problem.constraints) : \A i \in 0..(problem.constraints[k].m - 1) :
              IsNonlinear(problem.constraints[k]) =>
                At(f, ExpectedRow(problem.constraints, k, i))
                  = <<"F", problem.constraints[k].id, i, last.x>>

\* a Linear constraint listed before a Nonlinear one, every builder having
\* rows to lay out, after a value request
C1_Witness ==
  /\ SparseBuilt /\ ValuesRequested
  /\ Len(problem.constraints) = 2
  /\ IsLinear(problem.constraints[1]) /\ problem.constraints[1].m = MaxOut
  /\ IsNonlinear(problem.constraints[2])
  /\ solver.nea_ > 0 /\ solver.neg_ > 1

\* C2: after a Jacobian request, for every k below the recorded nonzero
\* count, g[k] is the value at the trial point of the Jacobian entry the
\* pattern builder recorded at k (combined row igfun[k], column jgvar[k]).
C2_JacobianMatchesPattern ==
  (JacobianRequested /\ fault = "none") =>
    \A k \in 1..solver.neg_ :
      g[k] = <<"J", obs.pattern[k].id, obs.pattern[k].row, solver.jgvar_[k] - 1, last.x>>

\* C3: in every invocation with a Jacobian request the number of entries
\* written into g is the nonzero count the pattern builder recorded.
C3_WrittenEqualsRecorded == JacobianRequested => last.offsetG = solver.neg_

\* C4: after a value request f[0] is the objective's value, the block of
\* each Nonlinear constraint starts at 1 + the output sizes of the
\* Nonlinear constraints before it and holds its outputs, the rows of the
\* Linear constraints are as the solver passed them, and the running
\* offset ends at nf.
C4_ValueBranch ==
  ValuesRequested =>
    /\ Len(f) = solver.nf_
    /\ At(f, 0) = <<"F", ObjId, 0, last.x>>
    /\ \A k \in 1..Len(problem.constraints) : \A i \in 0..(problem.constraints[k].m - 1) :
         IF IsNonlinear(problem.constraints[k])
         THEN At(f, 1 + OutputsBefore(problem.constraints, k, FALSE) + i)
                = <<"F", problem.constraints[k].id, i, last.x>>
         ELSE At(f, solver.nf_ - AllOutputs(problem.constraints, TRUE)
                      + OutputsBefore(problem.constraints, k, TRUE) + i) = Stale
    /\ last.offsetF = solver.nf_

\* a value request alone on a problem with a Linear constraint before a
\* Nonlinear one
C4_Witness ==
  /\ ValuesRequested /\ last.needg = 0 /\ pc = "inSolver"
  /\ \E k \in 1..Len(problem.constraints) :
       /\ IsNonlinear(problem.constraints[k]) /\ problem.constraints[k].m = MaxOut
       /\ AllOutputs(problem.constraints, TRUE) > 0

\* the state solve () derives from the problem
DerivedState(s) ==
  [iafun |-> s.iafun_, javar |-> s.javar_, a |-> s.a_, igfun |-> s.igfun_, jgvar |-> s.jgvar_,
   xlow |-> s.xlow_, xupp |-> s.xupp_, flow |-> s.flow_, fupp |-> s.fupp_,
   xnames |-> s.xnames_, fnames |-> s.fnames_,
   nf |-> s.nf_, lena |-> s.lena_, nea |-> s.nea_, leng |-> s.leng_, neg |-> s.neg_]

\* C5: a later call of solve () on a problem the first call accepted runs
\* to the external solver as the first did, with every derived array of
\* the size and contents the first call gave it.
C5_SolveRepeatable ==
  (adapter = "sparse" /\ last.op = "solve" /\ obs.solves >= 2 /\ obs.first # <<>>) =>
    /\ pc = "inSolver"
    /\ DerivedState(solver) = DerivedState(obs.first[1])

\* the errors that report a missing derivative capability
CapabilityErrors ==
  {"throw: objective function should be differentiable",
   "throw: cost function is not differentiable"}

\* C6: in both adapters the error for a function that is not
\* differentiable is raised by solve () before the external solver is
\* called, never by the evaluation callback while the solver iterates.
C6_CapabilityCheckedBeforeSolver ==
  (fault \in CapabilityErrors) => (last.op = "solve" /\ obs.entered = 0)

\* the external solver has returned and solve () with it
Returned == last.op = "return"

\* the last point and value as the claim reads them off the output arrays
\* of NagSolverNlpSparse
LastPoint ==
  [kind |-> "Result", x |-> solver.x_, value |-> <<solver.f_[1]>>,
   constraints |-> [k \in 1..(solver.nf_ - 1) |-> solver.f_[k + 1]],
   lambda |-> [k \in 1..(solver.nf_ - 1) |-> solver.fmul_[k + 1]]]

\* C7, as stated: on a non-success status solve () of either adapter
\* returns normally and stores a SolverError carrying the solver's message
\* and an attached last point; the result is a Result iff the status is
\* NE_NOERROR.
C7_Original ==
  Returned =>
    /\ pc = "idle" /\ fault = "none"
    /\ (solver.result_.kind = "Result") <=> (last.code = "NE_NOERROR")
    /\ last.code # "NE_NOERROR" =>
         /\ solver.result_.kind = "SolverError"
         /\ solver.result_.message = <<"message", last.code>>
         /\ Len(solver.result_.lastState) = 1

\* C7, amended: as stated, except that the last point and value are
\* attached by NagSolverNlpSparse only (decoded from x_, f_ and fmul_);
\* the SolverError of NagSolverDifferentiable carries the message alone.
C7_ResultTranslation ==
  Returned =>
    /\ pc = "idle" /\ fault = "none"
    /\ (solver.result_.kind = "Result") <=> (last.code = "NE_NOERROR")
    /\ last.code # "NE_NOERROR" =>
         /\ solver.result_.kind = "SolverError"
         /\ solver.result_.message = <<"message", last.code>>
         /\ adapter = "sparse" => solver.result_.lastState = <<LastPoint>>
         /\ adapter = "differentiable" => solver.result_.lastState = <<>>

\* NagSolverNlpSparse returned from a solver that stopped without success,
\* on a problem with constraint rows to decode
C7_Witness ==
  /\ Returned /\ adapter = "sparse" /\ last.code = "NE_USER_STOP"
  /\ solver.nf_ > 2
  /\ solver.result_.kind = "SolverError"

\* the representative component the claim gives a variable of bounds b
ExpectedComponent(b) ==
  IF IsFinite(b[1]) /\ IsFinite(b[2]) THEN (b[1] + b[2]) \div 2
  ELSE IF IsFinite(b[1]) THEN b[1]
  ELSE IF IsFinite(b[2]) THEN b[2]
  ELSE 0

\* the representative point the claim gives problem p
ExpectedPoint(p) ==
  IF p.startingPoint.has THEN p.startingPoint.x
  ELSE [i \in 1..p.n |-> ExpectedComponent(p.argumentBounds[i])]

\* C8: every point at which solve () evaluated a Jacobian to discover the
\* nonlinear pattern is the starting point if there is one, else, for each
\* variable, the midpoint of its bounds, its one finite bound, or zero; so
\* without a starting point it lies inside the variables' bounds.
C8_RepresentativePoint ==
  (adapter = "sparse" /\ last.op = "solve") =>
    \A k \in 1..Len(obs.points) :
      /\ obs.points[k].x = ExpectedPoint(problem)
      /\ ~problem.startingPoint.has =>
           \A i \in 1..problem.n :
             /\ Leq(problem.argumentBounds[i][1], obs.points[k].x[i])
             /\ Leq(obs.points[k].x[i], problem.argumentBounds[i][2])

\* solve () of NagSolverNlpSparse has assembled the bounds of the rows
BoundsAssembled == adapter = "sparse" /\ last.op = "solve" /\ obs.raw # <<>>

\* a declared bound less the offset b, as the claim states it
ShiftedBy(v, b) == IF IsFinite(v) THEN v - b ELSE v

\* C9: before the tolerance snapping, the row of output i of a Linear
\* constraint holds [lo_i - b_i, hi_i - b_i], and it is the row iafun
\* gives the entries of row i of that constraint's matrix; the row of
\* output i of a Nonlinear constraint holds [lo_i, hi_i].
C9_LinearBoundsShifted ==
  BoundsAssembled =>
    /\ \A k \in 1..Len(problem.constraints) : \A i \in 1..problem.constraints[k].m :
         /\ At(obs.raw, ExpectedRow(problem.constraints, k, i - 1)).flow
              = IF IsLinear(problem.constraints[k])
                THEN ShiftedBy(problem.constraints[k].bounds[i][1], problem.constraints[k].b[i])
                ELSE problem.constraints[k].bounds[i][1]
         /\ At(obs.raw, ExpectedRow(problem.constraints, k, i - 1)).fupp
              = IF IsLinear(problem.constraints[k])
                THEN ShiftedBy(problem.constraints[k].bounds[i][2], problem.constraints[k].b[i])
                ELSE problem.constraints[k].bounds[i][2]
    /\ \A j \in 1..solver.nea_ :
         /\ At(obs.raw, solver.iafun_[j] - 1).id = solver.a_[j][2]
         /\ At(obs.raw, solver.iafun_[j] - 1).i = solver.a_[j][3]
         /\ At(obs.raw, solver.iafun_[j] - 1).flow
              = ShiftedBy(problem.constraints[solver.a_[j][2] + 1].bounds[solver.a_[j][3] + 1][1],
                          problem.constraints[solver.a_[j][2] + 1].b[solver.a_[j][3] + 1])

\* a Linear constraint with finite bounds and a nonzero offset listed
\* before a Nonlinear constraint, solve () having reached the solver
C9_Witness ==
  /\ BoundsAssembled /\ pc = "inSolver" /\ solver.nea_ > 0
  /\ Len(problem.constraints) = 2
  /\ IsLinear(problem.constraints[1]) /\ IsNonlinear(problem.constraints[2])
  /\ problem.constraints[1].m = MaxOut
  /\ problem.constraints[1].b[MaxOut] # problem.constraints[1].b[1]
  /\ IsFinite(problem.constraints[1].bounds[MaxOut][1])
  /\ IsFinite(problem.constraints[1].bounds[MaxOut][2])

\* the claim's snapping of one bound to zero
NearZero(v) == IF -Tol < v /\ v < Tol THEN 0 ELSE v

\* whether two bounds differ by less than the tolerance
NearEqual(lo, up) == IsFinite(lo) /\ IsFinite(up) /\ lo - up < Tol /\ up - lo < Tol

\* the claim's bounds of a row assembled as r: near-zero bounds set to
\* zero, then the lower bound set to the upper when they nearly agree
ExpectedLower(r) ==
  IF NearEqual(NearZero(r.flow), NearZero(r.fupp)) THEN NearZero(r.fupp) ELSE NearZero(r.flow)

ExpectedUpper(r) == NearZero(r.fupp)

\* some row still has lower > upper after the snapping
InconsistentRow == \E k \in 1..Len(obs.raw) : ExpectedLower(obs.raw[k]) > ExpectedUpper(obs.raw[k])

\* every declared bound pair of the problem has lo <= hi
DeclaredConsistent ==
  \A k \in 1..Len(problem.constraints) : \A i \in 1..problem.constraints[k].m :
    problem.constraints[k].bounds[i][1] <= problem.constraints[k].bounds[i][2]

BoundsFault == "assert: flow_[id] <= fupp_[id]"

\* C10: when the external solver is invoked flow[id] <= fupp[id] on every
\* row, flow and fupp being the assembled bounds with near-zero bounds set
\* to zero and then nearly equal bounds set equal; a row left with
\* lower > upper stops solve () before the solver is called; declared
\* bounds with lo <= hi never do.
C10_BoundsConsistent ==
  /\ SparseBuilt =>
       /\ Len(solver.flow_) = solver.nf_ /\ Len(solver.fupp_) = solver.nf_
       /\ Len(obs.raw) = solver.nf_
       /\ \A k \in 1..solver.nf_ :
            /\ solver.flow_[k] <= solver.fupp_[k]
            /\ solver.flow_[k] = ExpectedLower(obs.raw[k])
            /\ solver.fupp_[k] = ExpectedUpper(obs.raw[k])
  /\ BoundsAssembled =>
       /\ InconsistentRow <=> fault = BoundsFault
       /\ InconsistentRow => pc = "aborted"
       /\ DeclaredConsistent => fault # BoundsFault

\* the solver invoked on rows that the loop changed: one with a bound set
\* to zero, one with its lower bound set to its upper
C10_Witness ==
  /\ SparseBuilt /\ last.op = "solve"
  /\ \E k \in 1..solver.nf_ :
       obs.raw[k].flow # 0 /\ solver.flow_[k] = 0 /\ solver.fupp_[k] > 0
  /\ \E k \in 1..solver.nf_ :
       obs.raw[k].flow < obs.raw[k].fupp /\ solver.flow_[k] = solver.fupp_[k]

\* C11: a non-terminal invocation of usrfun that runs to its end, whatever
\* needf and needg are, copies x into the solver state and invokes the
\* monitor once, after the requested values and Jacobian entries are
\* written, when a monitor is registered; it leaves the solver state alone
\* and invokes nothing when none is.
C11_MonitorProtocol ==
  [][(UsrFun /\ last'.status < 2 /\ fault' = "none") =>
       IF callback_
       THEN /\ solverState' = last'.x
            /\ last'.monitor = 1
            /\ last'.seenF = f' /\ last'.seenG = g'
            /\ last'.needf > 0 => At(last'.seenF, 0) = <<"F", ObjId, 0, last'.x>>
            /\ last'.needg > 0 => \A k \in 1..last'.offsetG : last'.seenG[k] # Stale
       ELSE /\ solverState' = solverState
            /\ last'.monitor = 0]_vars

\* the monitor was invoked after a call asking for values and Jacobian,
\* and after a call asking for neither
C11_Witness ==
  /\ adapter = "sparse" /\ last.op = "usrfun" /\ last.status < 2 /\ fault = "none"
  /\ callback_ /\ last.monitor = 1 /\ solverState = last.x
  /\ last.needf = 1 /\ last.needg = 1 /\ last.offsetG > 0

\* C12: an invocation of usrfun with the terminal signal (status >= 2)
\* writes no element of f or g, leaves the solver state as it was and does
\* not invoke the monitor, whatever needf and needg are and whether or not
\* a monitor is registered.
C12_TerminalSignal ==
  [][(UsrFun /\ last'.status >= 2) =>
       /\ f' = [k \in 1..solver.nf_ |-> Stale]
       /\ g' = [k \in 1..solver.leng_ |-> Stale]
       /\ last'.offsetF = 0 /\ last'.offsetG = 0
       /\ solverState' = solverState
       /\ last'.monitor = 0 /\ last'.seenF = <<>> /\ last'.seenG = <<>>
       /\ fault' = "none" /\ pc' = "inSolver"]_vars

\* the terminal signal came with both flags set and a monitor registered
C12_Witness ==
  /\ adapter = "sparse" /\ last.op = "usrfun" /\ last.status >= 2
  /\ last.needf = 1 /\ last.needg = 1 /\ callback_
  /\ last.monitor = 0 /\ solverState # last.x
  /\ \A k \in 1..Len(f) : f[k] = Stale

\* the entries the claim gives the linear pattern: one per stored
\* coefficient A[r][c] of each Linear constraint, at row offset + r and
\* column c counted from 1, the offset of the k-th constraint being 1 + the
\* output sizes of all Nonlinear constraints and of the Linear ones before
LinearTriples ==
  UNION {{<<1 + AllOutputs(problem.constraints, FALSE)
              + OutputsBefore(problem.constraints, k, TRUE) + (rc[1] + 1),
            rc[2] + 1,
            <<"A", problem.constraints[k].id, rc[1], rc[2]>>>> :
            rc \in Stored(problem.constraints[k].pat, problem.constraints[k].m, problem.n,
                          ZeroPoint(problem.n))} :
           k \in {j \in 1..Len(problem.constraints) : IsLinear(problem.constraints[j])}}

\* C13: the linear pattern holds, once each and constraint after
\* constraint in list order, the entries (offset + r, c, A[r][c]) of the
\* Linear constraints and nothing of the Nonlinear ones, and nea is their
\* number.
C13_LinearPattern ==
  SparseBuilt =>
    /\ solver.nea_ = Cardinality(LinearTriples)
    /\ {<<solver.iafun_[j], solver.javar_[j], solver.a_[j]>> : j \in 1..solver.nea_}
         = LinearTriples
    /\ \A i, j \in 1..solver.nea_ : i < j => solver.a_[i][2] <= solver.a_[j][2]

\* two Linear constraints, the first with MaxOut outputs, on MaxN variables
C13_Witness ==
  /\ SparseBuilt /\ problem.n = MaxN
  /\ Len(problem.constraints) = 2
  /\ IsLinear(problem.constraints[1]) /\ problem.constraints[1].m = MaxOut
  /\ IsLinear(problem.constraints[2])
  /\ solver.nea_ > MaxOut

\* the function whose Jacobian solve () evaluated at its k-th point
FunctionAt(k) ==
  IF obs.points[k].id = ObjId THEN problem.function
  ELSE problem.constraints[obs.points[k].id + 1]

\* the nonzeros of the Jacobians solve () evaluated at its first k points
RECURSIVE JacobianNonzeros(_)
JacobianNonzeros(k) ==
  IF k = 0 THEN 0
  ELSE JacobianNonzeros(k - 1)
       + Cardinality(Stored(FunctionAt(k).pat, FunctionAt(k).m, problem.n, obs.points[k].x))

\* C14: an empty pattern reaches the solver as arrays of length 1 holding
\* a zero entry, with a nonzero count of 0 (lena = 1, nea = 0; leng = 1,
\* neg = 0); a pattern that is not empty has its array length equal to its
\* nonzero count; always lena >= 1, leng >= 1 and 0 <= neg <= leng.
C14_Placeholder ==
  SparseBuilt =>
    /\ Len(solver.iafun_) = solver.lena_ /\ Len(solver.javar_) = solver.lena_
    /\ Len(solver.a_) = solver.lena_
    /\ Len(solver.igfun_) = solver.leng_ /\ Len(solver.jgvar_) = solver.leng_
    /\ IF LinearTriples = {}
       THEN /\ solver.lena_ = 1 /\ solver.nea_ = 0
            /\ solver.iafun_ = <<0>> /\ solver.javar_ = <<0>> /\ solver.a_ = <<ZeroValue>>
       ELSE solver.lena_ = solver.nea_ /\ solver.nea_ = Cardinality(LinearTriples)
    /\ IF JacobianNonzeros(Len(obs.points)) = 0
       THEN /\ solver.leng_ = 1 /\ solver.neg_ = 0
            /\ solver.igfun_ = <<0>> /\ solver.jgvar_ = <<0>>
       ELSE solver.leng_ = solver.neg_ /\ solver.neg_ = JacobianNonzeros(Len(obs.points))
    /\ solver.lena_ >= 1 /\ solver.leng_ >= 1
    /\ 0 <= solver.neg_ /\ solver.neg_ <= solver.leng_

\* the solver was called with both patterns empty
C14_Witness ==
  /\ SparseBuilt /\ LinearTriples = {} /\ JacobianNonzeros(Len(obs.points)) = 0
  /\ solver.lena_ = 1 /\ solver.leng_ = 1 /\ solver.nea_ = 0 /\ solver.neg_ = 0

\* C15: row 0, the objective's, has the bounds (-infinity, +infinity) for
\* every problem, before and after the tolerance snapping; a problem
\* without constraints has nf = 1 and that row alone.
C15_ObjectiveRowUnbounded ==
  SparseBuilt =>
    /\ obs.raw[1].flow = -Infinity /\ obs.raw[1].fupp = Infinity
    /\ solver.flow_[1] = -Infinity /\ solver.fupp_[1] = Infinity
    /\ Len(problem.constraints) = 0 =>
         /\ solver.nf_ = 1
         /\ solver.flow_ = <<-Infinity>> /\ solver.fupp_ = <<Infinity>>

\* the solver was called on a problem without constraints
C15_Witness ==
  /\ SparseBuilt /\ Len(problem.constraints) = 0
  /\ solver.nf_ = 1 /\ Len(solver.flow_) = 1

\* NagSolverNlpSparse returned from a solver that reported success
ReturnedSuccess == adapter = "sparse" /\ Returned /\ last.code = "NE_NOERROR"

\* C16: on success the stored result is the Result whose x is the n
\* solver variables, whose value is f[0], and whose k-th constraint value
\* and multiplier are f and fmul of combined row k, for k in 1..nf-1; so
\* output i of a constraint is found at its combined row.  It takes the
\* place of whatever result_ held.
C16_SuccessResult ==
  ReturnedSuccess =>
    /\ solver.result_.kind = "Result"
    /\ solver.result_.x = [i \in 1..problem.n |-> <<"x", i - 1>>]
    /\ solver.result_.value = << <<"f", 0>> >>
    /\ solver.result_.constraints = [k \in 1..(solver.nf_ - 1) |-> <<"f", k>>]
    /\ solver.result_.lambda = [k \in 1..(solver.nf_ - 1) |-> <<"fmul", k>>]
    /\ \A k \in 1..Len(problem.constraints) : \A i \in 0..(problem.constraints[k].m - 1) :
         solver.result_.constraints[ExpectedRow(problem.constraints, k, i)]
           = At(solver.f_, ExpectedRow(problem.constraints, k, i))

\* success on a problem with a Linear constraint listed before a
\* Nonlinear one
C16_Witness ==
  /\ ReturnedSuccess /\ solver.result_.kind = "Result"
  /\ Len(problem.constraints) = 2
  /\ IsLinear(problem.constraints[1]) /\ IsNonlinear(problem.constraints[2])
  /\ Len(solver.result_.constraints) > 2

\* the stored entries of the objective's Jacobian at x, in iteration order
ObjectiveEntries(x) == InnerIteration(Stored(problem.function.pat, 1, problem.n, x), 1, problem.n, 0)

\* the coordinates fill_igfun_jgvar_leng_neg recorded for the objective
RecordedObjective ==
  {<<obs.pattern[k].row, solver.jgvar_[k] - 1>> :
     k \in {j \in 1..Len(obs.pattern) : obs.pattern[j].id = ObjId}}

\* the objective's Jacobian at the trial point has a nonzero outside the
\* recorded pattern
ObjectiveSurplus ==
  \E k \in 1..Len(ObjectiveEntries(last.x)) : ObjectiveEntries(last.x)[k] \notin RecordedObjective

\* the number of entries the needg branch stores at the trial point: those
\* of the objective's Jacobian and of the Jacobians its loop evaluates
EvaluatedCount == Len(ObjectiveEntries(last.x)) + Cardinality(LinearTriples)

\* C17, as stated: a nonzero of a trial-point Jacobian outside the
\* recorded pattern is dropped silently: it is not written into g and no
\* error is raised.
C17_Original ==
  (JacobianRequested /\ ObjectiveSurplus) =>
    /\ fault = "none"
    /\ \A k \in 1..Len(ObjectiveEntries(last.x)) :
         ObjectiveEntries(last.x)[k] \notin RecordedObjective =>
           \A j \in 1..Len(g) :
             g[j] # <<"J", ObjId, ObjectiveEntries(last.x)[k][1],
                      ObjectiveEntries(last.x)[k][2], last.x>>

\* C17, amended: the needg branch drops nothing.  It stores every nonzero
\* of each Jacobian it evaluates at the next position of g, the
\* objective's first, in or out of the recorded pattern; no position at or
\* beyond leng is written, because the store at position leng stops the
\* run (index check); a run that stored fewer than leng entries stops at
\* assert (offset == leng); a run that stored leng entries returns.
C17_EntriesNeverDropped ==
  JacobianRequested =>
    /\ Len(g) = solver.leng_ /\ last.offsetG <= solver.leng_
    /\ \A k \in 1..Len(ObjectiveEntries(last.x)) :
         k <= solver.leng_ =>
           g[k] = <<"J", ObjId, ObjectiveEntries(last.x)[k][1],
                    ObjectiveEntries(last.x)[k][2], last.x>>
    /\ EvaluatedCount > solver.leng_ => (fault = "assert: index < size ()" /\ pc = "aborted")
    /\ EvaluatedCount < solver.leng_ => (fault = "assert: offset == leng" /\ pc = "aborted")
    /\ EvaluatedCount = solver.leng_ => (fault = "none" /\ last.offsetG = EvaluatedCount)

\* a nonzero outside the recorded pattern was stored in g and usrfun
\* returned
C17_Witness ==
  /\ JacobianRequested /\ ObjectiveSurplus /\ fault = "none" /\ pc = "inSolver"
  /\ \E k \in 1..Len(ObjectiveEntries(last.x)) :
       /\ ObjectiveEntries(last.x)[k] \notin RecordedObjective
       /\ g[k] = <<"J", ObjId, ObjectiveEntries(last.x)[k][1],
                    ObjectiveEntries(last.x)[k][2], last.x>>

\* the (row, column) coordinates of the two patterns, placeholders left out
LinearCoordinates == {<<solver.iafun_[k], solver.javar_[k]>> : k \in 1..solver.nea_}

NonlinearCoordinates == {<<solver.igfun_[k], solver.jgvar_[k]>> : k \in 1..solver.neg_}

\* C18: after the two pattern builders have run, the rows of the linear
\* pattern lie in (1 + the Nonlinear output sizes) + 1 .. nf, the rows of
\* the nonlinear pattern in 1 .. 1 + the Nonlinear output sizes, and every
\* column in 1 .. n; no coordinate is in both patterns and none is twice
\* in one.
C18_PatternRanges ==
  SparseBuilt =>
    /\ \A k \in 1..solver.nea_ :
         /\ 1 + AllOutputs(problem.constraints, FALSE) + 1 <= solver.iafun_[k]
         /\ solver.iafun_[k] <= solver.nf_
         /\ 1 <= solver.javar_[k] /\ solver.javar_[k] <= problem.n
    /\ \A k \in 1..solver.neg_ :
         /\ 1 <= solver.igfun_[k]
         /\ solver.igfun_[k] <= 1 + AllOutputs(problem.constraints, FALSE)
         /\ 1 <= solver.jgvar_[k] /\ solver.jgvar_[k] <= problem.n
    /\ LinearCoordinates \cap NonlinearCoordinates = {}
    /\ Cardinality(LinearCoordinates) = solver.nea_
    /\ Cardinality(NonlinearCoordinates) = solver.neg_

\* both patterns hold several entries, with a Linear constraint listed
\* before a Nonlinear one
C18_Witness ==
  /\ SparseBuilt /\ solver.nea_ >= 2 /\ solver.neg_ >= 2
  /\ Len(problem.constraints) = 2
  /\ IsLinear(problem.constraints[1]) /\ IsNonlinear(problem.constraints[2])
  /\ problem.function.pat # "empty"

====
